---- MODULE Spec2Model ----
(***************************************************************************)
(* A model of megpost (src/main.go): the transcript splitter, the metric   *)
(* extractors, the fingerprint key and the walk/prune engine of main().    *)
(*                                                                         *)
(* A Go string is modelled as a sequence of one-character strings, so that *)
(* <<"a", "-">> is the Go string "a-".  Indices are 1-based.               *)
(*                                                                         *)
(* Spec is a run of main() over a directory tree: the entries the walk     *)
(* meets, their bytes and the I/O faults of the operating system are       *)
(* chosen in Init; whether an os.Remove succeeds and the order in which    *)
(* the range over the map yields the groups are chosen step by step.       *)
(* SpecSplit and SpecHeaders apply the splitter and the redirect           *)
(* extractors to every input of a bounded set.                             *)
(*                                                                         *)
(* The files of the model are shorter than the 1,000,000 bytes of the      *)
(* capped read, so the word scan of the rest of the file counts no word.   *)
(***************************************************************************)
EXTENDS Integers, Sequences, FiniteSets, TLC

VARIABLES
    entries,       \* the directory tree in filepath.Walk order: one record per entry
    pc,            \* position of main(): "walk", "prune", "done" ("idle" outside a run)
    next,          \* index of the next entry the walk will visit
    groupedFiles,  \* map[string][]string of main(): key -> paths in visitation order
    fileMetrics,   \* the FileMetrics computed for each grouped path
    todo,          \* keys the range over groupedFiles has not yet yielded
    dups,          \* files[1:] of the group in hand still to be removed
    disk,          \* paths that exist on disk
    removed,       \* the counter `removed` of main()
    attempts,      \* os.Remove calls made so far: <<path, succeeded>>
    stdout,        \* lines written by fmt.Printf
    arg,           \* the argument of the function under test (function specifications)
    ret            \* <<its result>>, or NotCalled

vars == <<entries, pc, next, groupedFiles, fileMetrics, todo, dups, disk,
          removed, attempts, stdout, arg, ret>>

mainVars == <<entries, pc, next, groupedFiles, fileMetrics, todo, dups, disk,
              removed, attempts, stdout>>

---------------------------------------------------------------------------
(* Bounds of the model. *)

MaxEntries == 4
MaxContentLen == 6
MaxHeaderTokens == 4

(* Program constants. *)

ReadCap == 1000000
MaxScanTokenSize == 65536

---------------------------------------------------------------------------
(* Characters and strings. *)

NL == "\n"
CR == "\r"
TAB == "\t"

\* the initial value of `var prev rune`
NoRune == "NUL"

UpperLetters == <<"A","B","C","D","E","F","G","H","I","J","K","L","M",
                  "N","O","P","Q","R","S","T","U","V","W","X","Y","Z">>
LowerLetters == <<"a","b","c","d","e","f","g","h","i","j","k","l","m",
                  "n","o","p","q","r","s","t","u","v","w","x","y","z">>
DigitChars == <<"0","1","2","3","4","5","6","7","8","9">>

Range(f) == {f[i] : i \in DOMAIN f}

IsLetter(c) == c \in Range(UpperLetters) \cup Range(LowerLetters)
IsDigit(c) == c \in Range(DigitChars)

\* \s of Go regexp: [\t\n\f\r ]
IsRegexSpace(c) == c \in {" ", TAB, NL, CR, "\f"}

\* unicode.IsSpace on the characters a TLA+ string can hold (no "\v")
IsSpace(c) == c \in {" ", TAB, NL, CR, "\f"}

ToLower(c) ==
    IF c \in Range(UpperLetters)
    THEN LowerLetters[CHOOSE i \in DOMAIN UpperLetters : UpperLetters[i] = c]
    ELSE c

Min(a, b) == IF a < b THEN a ELSE b

\* s[i:] and s[i:j] with 1-based inclusive bounds
From(s, i) == SubSeq(s, i, Len(s))

\* does lit occur in s at index i
MatchAt(s, i, lit) ==
    /\ i >= 1
    /\ i + Len(lit) - 1 <= Len(s)
    /\ \A k \in 1..Len(lit) : s[i + k - 1] = lit[k]

\* the same, ignoring the case of ASCII letters ((?i) of Go regexp)
MatchAtFold(s, i, lit) ==
    /\ i >= 1
    /\ i + Len(lit) - 1 <= Len(s)
    /\ \A k \in 1..Len(lit) : ToLower(s[i + k - 1]) = ToLower(lit[k])

\* strings.Index from position i: the first index >= i where lit occurs, 0 if none
IndexFrom(s, lit, i) ==
    LET hits == {j \in i..Len(s) : MatchAt(s, j, lit)}
    IN  IF hits = {} THEN 0 ELSE CHOOSE j \in hits : \A k \in hits : j <= k

Contains(s, lit) == \E j \in 1..(Len(s) + 1) : MatchAt(s, j, lit)

ContainsFold(s, lit) == \E j \in 1..(Len(s) + 1) : MatchAtFold(s, j, lit)

\* the end of the line that holds index i: the index of the next "\n", or Len(s) + 1
LineEnd(s, i) ==
    LET hits == {j \in i..Len(s) : s[j] = NL}
    IN  IF hits = {} THEN Len(s) + 1 ELSE CHOOSE j \in hits : \A k \in hits : j <= k

RECURSIVE Concat(_)
Concat(parts) ==
    IF parts = <<>> THEN <<>> ELSE Head(parts) \o Concat(Tail(parts))

\* strings.TrimSpace
TrimSpace(s) ==
    LET keep == {i \in 1..Len(s) : ~IsSpace(s[i])}
    IN  IF keep = {} THEN <<>>
        ELSE SubSeq(s, CHOOSE i \in keep : \A k \in keep : i <= k,
                       CHOOSE j \in keep : \A k \in keep : j >= k)

\* strconv.Itoa / %d of a non-negative int
RECURSIVE Itoa(_)
Itoa(n) ==
    IF n < 10 THEN <<DigitChars[n + 1]>>
    ELSE Itoa(n \div 10) \o <<DigitChars[(n % 10) + 1]>>

\* %t
FormatBool(b) == IF b THEN <<"t","r","u","e">> ELSE <<"f","a","l","s","e">>

---------------------------------------------------------------------------
(* SeperateContentIntoHeadersAndBody, src/main.go:139-179. *)

\* the loop of lines 144-150: the index of the first '<' whose previous rune is
\* '\n', 0 when the loop ends without a break
RECURSIVE ScanBoundary(_, _, _)
ScanBoundary(Content, i, prev) ==
    IF i > Len(Content) THEN 0
    ELSE IF prev = NL /\ Content[i] = "<" THEN i
    ELSE ScanBoundary(Content, i + 1, Content[i])

\* a scan that also takes a '<' at offset 0 for a line start
EntireResponseFromLineStart(Content) ==
    LET i == ScanBoundary(Content, 1, NL)
    IN  IF i = 0 THEN <<>> ELSE From(Content, i)

EntireResponse(Content) ==
    LET i == ScanBoundary(Content, 1, NoRune)
    IN  IF i = 0 THEN <<>> ELSE From(Content, i)

\* dropCR of bufio.ScanLines
DropCR(line) ==
    IF Len(line) > 0 /\ line[Len(line)] = CR
    THEN SubSeq(line, 1, Len(line) - 1) ELSE line

\* the tokens scanner.Scan yields with bufio.ScanLines from index start: lines
\* end at "\n", an empty last line is not a token, and the scan stops at a
\* line that does not fit the scanner's buffer
RECURSIVE ScanLines(_, _)
ScanLines(s, start) ==
    IF start > Len(s) THEN <<>>
    ELSE LET e == LineEnd(s, start)
             raw == SubSeq(s, start, e - 1)
         IN  IF Len(raw) >= MaxScanTokenSize THEN <<>>
             ELSE <<DropCR(raw)>> \o ScanLines(s, e + 1)

\* strings.Replace(line, "< ", "", 1)
StripMarker(line) ==
    LET i == IndexFrom(line, <<"<", " ">>, 1)
    IN  IF i = 0 THEN line
        ELSE SubSeq(line, 1, i - 1) \o From(line, i + 2)

\* the loop of lines 161-174 over the remaining lines
RECURSIVE SplitLoop(_, _, _, _)
SplitLoop(lines, inHeaders, HeaderBuilder, BodyBuilder) ==
    IF lines = <<>> THEN [headers |-> HeaderBuilder, body |-> BodyBuilder]
    ELSE LET line == Head(lines)
         IN  IF inHeaders
             THEN IF line = <<>>
                  THEN SplitLoop(Tail(lines), FALSE, HeaderBuilder, BodyBuilder)
                  ELSE SplitLoop(Tail(lines), TRUE,
                                 HeaderBuilder \o StripMarker(line) \o <<NL>>,
                                 BodyBuilder)
             ELSE SplitLoop(Tail(lines), FALSE, HeaderBuilder,
                            BodyBuilder \o line \o <<NL>>)

SeperateContentIntoHeadersAndBody(Content) ==
    LET built == SplitLoop(ScanLines(EntireResponse(Content), 1), TRUE, <<>>, <<>>)
    IN  [headers |-> TrimSpace(built.headers), body |-> TrimSpace(built.body)]

---------------------------------------------------------------------------
(* The metric extractors, src/main.go:40-137.  Each regular expression is  *)
(* modelled by the leftmost-first match Go's regexp package finds; `.`     *)
(* matches every character but "\n".                                       *)

\* the first index >= i of s that is not in the set of indices run, Len(s) + 1
\* if there is none
RunEnd(s, i, run) ==
    LET stops == (i..Len(s)) \ run
    IN  IF stops = {} THEN Len(s) + 1 ELSE CHOOSE j \in stops : \A k \in stops : j <= k

SpaceRunEnd(s, i) == RunEnd(s, i, {j \in 1..Len(s) : IsRegexSpace(s[j])})

DigitRunEnd(s, i) == RunEnd(s, i, {j \in 1..Len(s) : IsDigit(s[j])})

SetMin(S) == CHOOSE j \in S : \A k \in S : j <= k

\* FindStringSubmatch of `<literal>(.*)`: the rest of the line after the first
\* occurrence of the literal, "" when there is no match
CaptureAfter(s, lit) ==
    LET i == IndexFrom(s, lit, 1)
    IN  IF i = 0 THEN <<>>
        ELSE SubSeq(s, i + Len(lit), LineEnd(s, i + Len(lit)) - 1)

LocationLiteral == <<"L","o","c","a","t","i","o","n",":"," ">>
ContentTypeLiteral == <<"C","o","n","t","e","n","t","-","T","y","p","e",":"," ">>
HttpLiteral == <<"H","T","T","P","/">>
TitleOpen == <<"<","t","i","t","l","e",">">>
TitleClose == <<"<","/","t","i","t","l","e",">">>

\* redirectLocationRegex = "Location: (.*)"
GetRedirectLocation(headers) == CaptureAfter(headers, LocationLiteral)

\* contentTypeRegex = "Content-Type: (.*)"
GetContentType(headers) == CaptureAfter(headers, ContentTypeLiteral)

\* statusRegex = "HTTP/.*?\s+(\d+)\s+".  With `.*?` ending before index q, `\s+`
\* must take the whole run of white space at q, `(\d+)` the whole run of digits
\* after it, and one more white space must follow.
StatusRunOK(s, q) ==
    /\ q <= Len(s)
    /\ IsRegexSpace(s[q])
    /\ LET w == SpaceRunEnd(s, q)
           e == DigitRunEnd(s, w)
       IN  w <= Len(s) /\ IsDigit(s[w]) /\ e <= Len(s) /\ IsRegexSpace(s[e])

\* the indices where `.*?` may end for "HTTP/" found at p: it crosses no "\n"
StatusStops(s, p) ==
    {q \in (p + 5)..LineEnd(s, p + 5) : StatusRunOK(s, q)}

GetStatus(headers) ==
    LET starts == {p \in 1..Len(headers) :
                     MatchAt(headers, p, HttpLiteral) /\ StatusStops(headers, p) # {}}
    IN  IF starts = {} THEN <<>>
        ELSE LET q == SetMin(StatusStops(headers, SetMin(starts)))
                 w == SpaceRunEnd(headers, q)
             IN  SubSeq(headers, w, DigitRunEnd(headers, w) - 1)

\* interestingContent = "(?mi)(PUDAX|DUPA|INJECTX)"
HasMarker(s) ==
    \/ ContainsFold(s, <<"P","U","D","A","X">>)
    \/ ContainsFold(s, <<"D","U","P","A">>)
    \/ ContainsFold(s, <<"I","N","J","E","C","T","X">>)

IsInterestingContent(headers, body) == HasMarker(headers) \/ HasMarker(body)

\* the number of (non-overlapping) occurrences of a literal
CountLiteral(s, lit) == Cardinality({j \in 1..Len(s) : MatchAt(s, j, lit)})

\* tagsRegex = "<(.*?)>": a match starts at a '<' that has a '>' later on its
\* line and ends at the first such '>'; the search goes on after it
TagClose(s, p) ==
    LET closes == {c \in (p + 1)..(LineEnd(s, p) - 1) : s[c] = ">"}
    IN  IF closes = {} THEN 0 ELSE SetMin(closes)

RECURSIVE CountTagMatches(_, _)
CountTagMatches(s, i) ==
    LET opens == {p \in i..Len(s) : s[p] = "<" /\ TagClose(s, p) # 0}
    IN  IF opens = {} THEN 0
        ELSE 1 + CountTagMatches(s, TagClose(s, SetMin(opens)) + 1)

\* jsonRegex = ("|')(\s|):(\s|)("|'|): the index of the last character of the
\* match that starts at p, 0 when there is none
IsQuote(c) == c \in {"\"", "'"}

CharAt(s, i) == IF i >= 1 /\ i <= Len(s) THEN s[i] ELSE NoRune

JsonMatchEnd(s, p) ==
    IF ~IsQuote(CharAt(s, p)) THEN 0
    ELSE LET colon == IF IsRegexSpace(CharAt(s, p + 1))
                      THEN (IF CharAt(s, p + 2) = ":" THEN p + 2 ELSE 0)
                      ELSE (IF CharAt(s, p + 1) = ":" THEN p + 1 ELSE 0)
         IN  IF colon = 0 THEN 0
             ELSE LET m == IF IsRegexSpace(CharAt(s, colon + 1))
                           THEN colon + 1 ELSE colon
                  IN  IF IsQuote(CharAt(s, m + 1)) THEN m + 1 ELSE m

RECURSIVE CountJsonMatches(_, _)
CountJsonMatches(s, i) ==
    LET starts == {p \in i..Len(s) : JsonMatchEnd(s, p) # 0}
    IN  IF starts = {} THEN 0
        ELSE 1 + CountJsonMatches(s, JsonMatchEnd(s, SetMin(starts)) + 1)

CountTags(contentType, body) ==
    IF Contains(contentType, <<"h","t","m","l">>) \/ Contains(contentType, <<"x","m","l">>)
    THEN Itoa(CountTagMatches(body, 1))
    ELSE IF Contains(contentType, <<"j","s","o","n">>)
    THEN Itoa(CountJsonMatches(body, 1))
    ELSE <<"0">>

\* cssRegex = `\.css(\?|)`
CountCssFiles(body) == Itoa(CountLiteral(body, <<".","c","s","s">>))

\* jsRegex = `\.js(\?|)`
CountJsFiles(body) == Itoa(CountLiteral(body, <<".","j","s">>))

\* titleRegex = "(?mi)<title>(.*?)</title>": the text between the first
\* <title> that has a </title> later on its line and the first such </title>;
\* NoTitle when there is no match
NoTitle == [found |-> FALSE, text |-> <<>>]

TitleCloseAt(s, p) ==
    LET closes == {c \in (p + 7)..LineEnd(s, p) : MatchAtFold(s, c, TitleClose)}
    IN  IF closes = {} THEN 0 ELSE SetMin(closes)

TitleMatch(body) ==
    LET opens == {p \in 1..Len(body) :
                    MatchAtFold(body, p, TitleOpen) /\ TitleCloseAt(body, p) # 0}
    IN  IF opens = {} THEN NoTitle
        ELSE LET p == SetMin(opens)
             IN  [found |-> TRUE, text |-> SubSeq(body, p + 7, TitleCloseAt(body, p) - 1)]

\* len(strings.Fields(s))
CountFields(s) ==
    Cardinality({i \in 1..Len(s) :
                   ~IsSpace(s[i]) /\ (i = 1 \/ IsSpace(s[i - 1]))})

CalculateTitleLength(body) ==
    LET m == TitleMatch(body)
    IN  IF m.found THEN Itoa(Len(m.text)) ELSE <<"0">>

CalculateTitleWords(body) ==
    LET m == TitleMatch(body)
    IN  IF m.found THEN Itoa(CountFields(m.text)) ELSE <<"0">>

\* headerRegex = "(.*):(.*)": one match for every line that holds a ':'
RECURSIVE CountColonLines(_, _)
CountColonLines(s, start) ==
    IF start > Len(s) THEN 0
    ELSE LET e == LineEnd(s, start)
         IN  (IF \E j \in start..(e - 1) : s[j] = ":" THEN 1 ELSE 0)
             + CountColonLines(s, e + 1)

CountHeaders(headerString) == Itoa(CountColonLines(headerString, 1))

---------------------------------------------------------------------------
(* url.Parse as ExtractRedirectDomain and CountRedirectParameters use it,  *)
(* src/main.go:119-133, for URLs without '#', '%', '@', '[', ']', ';' and  *)
(* '+' (UrlModelled); the result holds the fields the callers read.        *)

UrlModelled(u) == \A i \in 1..Len(u) : u[i] \notin {"#", "%", "@", "[", "]", ";", "+"}

UrlError == [err |-> TRUE, Host |-> <<>>, RawQuery |-> <<>>]

\* stringContainsCTLByte
ContainsCTLByte(u) == \E i \in 1..Len(u) : u[i] \in {TAB, NL, CR, "\f"}

\* getScheme: [scheme, rest, err]
RECURSIVE GetScheme(_, _)
GetScheme(rawURL, i) ==
    IF i > Len(rawURL) THEN [scheme |-> <<>>, rest |-> rawURL, err |-> FALSE]
    ELSE LET c == rawURL[i]
         IN  IF IsLetter(c) THEN GetScheme(rawURL, i + 1)
             ELSE IF IsDigit(c) \/ c \in {"+", "-", "."}
             THEN IF i = 1 THEN [scheme |-> <<>>, rest |-> rawURL, err |-> FALSE]
                  ELSE GetScheme(rawURL, i + 1)
             ELSE IF c = ":"
             THEN IF i = 1 THEN [scheme |-> <<>>, rest |-> <<>>, err |-> TRUE]
                  ELSE [scheme |-> SubSeq(rawURL, 1, i - 1),
                        rest |-> From(rawURL, i + 1), err |-> FALSE]
             ELSE [scheme |-> <<>>, rest |-> rawURL, err |-> FALSE]

\* strings.Cut(s, sep) for a one-character sep
CutBefore(s, sep) ==
    LET i == IndexFrom(s, <<sep>>, 1) IN IF i = 0 THEN s ELSE SubSeq(s, 1, i - 1)

CutAfter(s, sep) ==
    LET i == IndexFrom(s, <<sep>>, 1) IN IF i = 0 THEN <<>> ELSE From(s, i + 1)

\* validOptionalPort of the text from the last ':' of the host on
LastColon(host) ==
    LET hits == {i \in 1..Len(host) : host[i] = ":"}
    IN  IF hits = {} THEN 0 ELSE CHOOSE i \in hits : \A k \in hits : i >= k

ValidOptionalPort(host) ==
    LET i == LastColon(host)
    IN  i = 0 \/ \A k \in (i + 1)..Len(host) : IsDigit(host[k])

\* shouldEscape(c, encodeHost) for the characters unescape meets in a host
InvalidHostChar(c) == c \in {" ", "\\", "^", "{", "|", "}"}

\* parseAuthority / parseHost without userinfo and without an IP literal
HostError(authority) ==
    \/ ~ValidOptionalPort(authority)
    \/ \E i \in 1..Len(authority) : InvalidHostChar(authority[i])

UrlParse(rawURL) ==
    IF ContainsCTLByte(rawURL) THEN UrlError
    ELSE IF rawURL = <<"*">> THEN [err |-> FALSE, Host |-> <<>>, RawQuery |-> <<>>]
    ELSE LET g == GetScheme(rawURL, 1)
             force == /\ Len(g.rest) > 0
                      /\ g.rest[Len(g.rest)] = "?"
                      /\ CountLiteral(g.rest, <<"?">>) = 1
             rest == IF force THEN SubSeq(g.rest, 1, Len(g.rest) - 1)
                     ELSE CutBefore(g.rest, "?")
             query == IF force THEN <<>> ELSE CutAfter(g.rest, "?")
             rooted == MatchAt(rest, 1, <<"/">>)
         IN  IF g.err THEN UrlError
             ELSE IF ~rooted /\ g.scheme # <<>>
             THEN [err |-> FALSE, Host |-> <<>>, RawQuery |-> query]
             ELSE IF ~rooted /\ Contains(CutBefore(rest, "/"), <<":">>)
             THEN UrlError
             ELSE IF (g.scheme # <<>> \/ ~MatchAt(rest, 1, <<"/","/","/">>))
                     /\ MatchAt(rest, 1, <<"/","/">>)
             THEN LET authority == CutBefore(From(rest, 3), "/")
                  IN  IF HostError(authority) THEN UrlError
                      ELSE [err |-> FALSE, Host |-> authority, RawQuery |-> query]
             ELSE [err |-> FALSE, Host |-> <<>>, RawQuery |-> query]

\* the keys of url.ParseQuery(query): the text before the first '=' of every
\* non-empty '&'-separated piece
RECURSIVE QueryKeys(_)
QueryKeys(query) ==
    IF query = <<>> THEN {}
    ELSE LET piece == CutBefore(query, "&")
             more == QueryKeys(CutAfter(query, "&"))
         IN  IF piece = <<>> THEN more ELSE {CutBefore(piece, "=")} \cup more

ExtractRedirectDomain(urlStr) ==
    LET parsedURL == UrlParse(urlStr)
    IN  IF parsedURL.err THEN <<>> ELSE parsedURL.Host

CountRedirectParameters(urlStr) ==
    LET parsedURL == UrlParse(urlStr)
    IN  IF parsedURL.err THEN <<"0">>
        ELSE Itoa(Cardinality(QueryKeys(parsedURL.RawQuery)))

---------------------------------------------------------------------------
(* computeMetrics and keyForMetrics, src/main.go:181-237. *)

\* the files the model reads: their bytes and the I/O fault the operating
\* system injects, if any
Faults == {"none", "open", "read", "scan"}

\* bufio.ScanWords over the bytes after the capped read: the number of words,
\* -1 when a word does not fit the scanner's buffer
WordStarts(t) == {i \in 1..Len(t) : ~IsSpace(t[i]) /\ (i = 1 \/ IsSpace(t[i - 1]))}

ScanWords(t) ==
    IF \E i \in WordStarts(t) : RunEnd(t, i, {j \in 1..Len(t) : ~IsSpace(t[j])}) - i >= MaxScanTokenSize
    THEN -1
    ELSE Cardinality(WordStarts(t))

\* the FileMetrics fields keyForMetrics reads; the others keep their zero value
ZeroMetrics ==
    [Status |-> <<>>, Words |-> 0, ContentType |-> <<>>, RedirectLocation |-> <<>>,
     CountHeaders |-> <<>>, RedirectDomain |-> <<>>, CountRedirectParameters |-> <<>>,
     LengthTitle |-> <<>>, WordsTitle |-> <<>>, CountCssFiles |-> <<>>,
     CountJsFiles |-> <<>>, CountTags |-> <<>>, IsInteresting |-> FALSE]

computeMetrics(file) ==
    LET n == Min(Len(file.bytes), ReadCap)
        content == SubSeq(file.bytes, 1, n)
        hb == SeperateContentIntoHeadersAndBody(content)
        Headers == hb.headers
        Body == hb.body
        location == GetRedirectLocation(Headers)
        contentType == GetContentType(Headers)
        words == ScanWords(From(file.bytes, n + 1))
        metrics ==
            [Status |-> GetStatus(Headers),
             Words |-> IF words < 0 THEN 0 ELSE words,
             ContentType |-> contentType,
             RedirectLocation |-> location,
             CountHeaders |-> CountHeaders(Headers),
             RedirectDomain |-> ExtractRedirectDomain(location),
             CountRedirectParameters |-> CountRedirectParameters(location),
             LengthTitle |-> CalculateTitleLength(Body),
             WordsTitle |-> CalculateTitleWords(Body),
             CountCssFiles |-> CountCssFiles(Body),
             CountJsFiles |-> CountJsFiles(Body),
             CountTags |-> CountTags(contentType, Body),
             IsInteresting |-> IsInterestingContent(Headers, Body)]
    IN  IF file.fault = "open" THEN [err |-> TRUE, metrics |-> ZeroMetrics]
        \* io.ReadFull: an I/O error, or io.EOF when the file holds no byte
        ELSE IF file.fault = "read" \/ n = 0 THEN [err |-> TRUE, metrics |-> ZeroMetrics]
        ELSE IF file.fault = "scan" \/ words < 0 THEN [err |-> TRUE, metrics |-> metrics]
        ELSE [err |-> FALSE, metrics |-> metrics]

Dash == <<"-">>

keyForMetrics(m) ==
    m.Status \o Dash \o Itoa(m.Words) \o Dash \o m.ContentType \o Dash
    \o m.RedirectLocation \o Dash \o m.CountHeaders \o Dash \o m.RedirectDomain \o Dash
    \o m.CountRedirectParameters \o Dash \o m.LengthTitle \o Dash \o m.WordsTitle \o Dash
    \o m.CountCssFiles \o Dash \o m.CountJsFiles \o Dash \o m.CountTags \o Dash
    \o FormatBool(m.IsInteresting)

---------------------------------------------------------------------------
(* The transcripts the walk meets.  Each is a capture in meg's format: the *)
(* request lines, then the response lines marked "< ", a blank line and    *)
(* the body.                                                               *)

Preamble == <<"u", NL, NL, ">", " ", "G", NL>>
StatusLine == <<"<"," ","H","T","T","P","/","1"," ","2","0","0"," ","O","K", NL>>
BlankAndBody == <<NL, "o", "k">>

\* Content-Type: a-   and one more header
TranscriptA ==
    Concat(<<Preamble, StatusLine,
             <<"<"," ">>, ContentTypeLiteral, <<"a","-", NL>>,
             <<"<"," ","X",":"," ","y", NL>>,
             BlankAndBody>>)

\* Content-Type: a    and Location: -
TranscriptB ==
    Concat(<<Preamble, StatusLine,
             <<"<"," ">>, ContentTypeLiteral, <<"a", NL>>,
             <<"<"," ">>, LocationLiteral, <<"-", NL>>,
             BlankAndBody>>)

\* an HTML page with a title, a tag and a redirect to another host
TranscriptC ==
    Concat(<<Preamble, StatusLine,
             <<"<"," ">>, ContentTypeLiteral, <<"t","e","x","t","/","h","t","m","l", NL>>,
             <<"<"," ">>, LocationLiteral, <<"/","/","h","/","?","q","=","1", NL>>,
             <<NL>>, TitleOpen, <<"h","i">>, TitleClose>>)

\* a JSON answer with CRLF line ends, a Content-Location header and a marker
TranscriptD ==
    Concat(<<Preamble,
             <<"<"," ","H","T","T","P","/","1"," ","2","0","0"," ","O","K", CR, NL>>,
             <<"<"," ">>, ContentTypeLiteral, <<"a","/","j","s","o","n", CR, NL>>,
             <<"<"," ","C","o","n","t","e","n","t","-">>, LocationLiteral,
             <<"/","x",".","j","s", CR, NL>>,
             <<CR, NL>>,
             <<"{","\"","k","\""," ",":","\"","D","u","p","a","\"","}">>>>)

EmptyFile == <<>>

Transcripts == {TranscriptA, TranscriptB, TranscriptC, TranscriptD, EmptyFile}

\* what the walk can meet at a path: a directory, an entry whose lstat or
\* listing fails, or a regular file with its bytes and its I/O fault
EntryPool ==
    {[kind |-> "dir"], [kind |-> "walkErr"]}
    \cup {[kind |-> "file", bytes |-> t, fault |-> "none"] : t \in Transcripts}
    \cup {[kind |-> "file", bytes |-> TranscriptA, fault |-> f] : f \in Faults \ {"none"}}

FilePool == {e \in EntryPool : e.kind = "file"}

\* computeMetrics on the files of the pool
MetricsTable == [f \in FilePool |-> computeMetrics(f)]

---------------------------------------------------------------------------
(* main(), src/main.go:239-289.  A path is the index of its entry in the   *)
(* order filepath.Walk visits the entries below rootDir.                   *)

Paths == 1..MaxEntries

\* ret holds no result yet; after a call it is <<result>>
NotCalled == <<>>

EmptyMap == [k \in {} |-> <<>>]

\* groupedFiles[key] = []string{path}: the group is replaced, not extended
AppendPathOverwrite(groups, key, path) ==
    [k \in DOMAIN groups \cup {key} |-> IF k = key THEN <<path>> ELSE groups[k]]

\* groupedFiles[key] = append(groupedFiles[key], path)
AppendPath(groups, key, path) ==
    IF key \in DOMAIN groups
    THEN [groups EXCEPT ![key] = Append(@, path)]
    ELSE [k \in DOMAIN groups \cup {key} |->
            IF k = key THEN <<path>> ELSE groups[k]]

\* files[0:]: the retained path is removed too
DuplicatesAll(files) == files

\* files[2:]: the second path is never removed
DuplicatesSkipSecond(files) == Tail(Tail(files))

\* files[1:]
Duplicates(files) == Tail(files)

GroupLine(key, files) ==
    [line |-> "group", key |-> key, size |-> Len(files), save |-> files[1]]
RemovedLine(dup) == [line |-> "removed", path |-> dup]
TotalLine(n) == [line |-> "total", count |-> n]

Init ==
    /\ entries \in [Paths -> EntryPool]
    /\ pc = "walk"
    /\ next = 1
    /\ groupedFiles = EmptyMap
    /\ fileMetrics = EmptyMap
    /\ todo = {}
    /\ dups = <<>>
    /\ disk = Paths
    /\ removed = 0
    /\ attempts = <<>>
    /\ stdout = <<>>
    /\ arg = <<>>
    /\ ret = NotCalled

Visiting == pc = "walk" /\ next <= MaxEntries

\* lines 249-252: the walk reports an error for the entry
WalkError ==
    /\ Visiting
    /\ entries[next].kind = "walkErr"
    /\ next' = next + 1
    /\ UNCHANGED <<entries, pc, groupedFiles, fileMetrics, todo, dups, disk,
                   removed, attempts, stdout, arg, ret>>

\* lines 254-256
WalkDir ==
    /\ Visiting
    /\ entries[next].kind = "dir"
    /\ next' = next + 1
    /\ UNCHANGED <<entries, pc, groupedFiles, fileMetrics, todo, dups, disk,
                   removed, attempts, stdout, arg, ret>>

\* the error branch without its `return nil`: the path is grouped all the same
WalkFileErrorGroups ==
    /\ Visiting
    /\ entries[next].kind = "file"
    /\ MetricsTable[entries[next]].err
    /\ LET metrics == MetricsTable[entries[next]].metrics
       IN  /\ groupedFiles' = AppendPath(groupedFiles, keyForMetrics(metrics), next)
           /\ fileMetrics' = [p \in DOMAIN fileMetrics \cup {next} |->
                                IF p = next THEN metrics ELSE fileMetrics[p]]
    /\ next' = next + 1
    /\ UNCHANGED <<entries, pc, todo, dups, disk, removed, attempts, stdout, arg, ret>>

\* lines 258-262: computeMetrics fails, the file is logged and skipped
WalkFileError ==
    /\ Visiting
    /\ entries[next].kind = "file"
    /\ MetricsTable[entries[next]].err
    /\ next' = next + 1
    /\ UNCHANGED <<entries, pc, groupedFiles, fileMetrics, todo, dups, disk,
                   removed, attempts, stdout, arg, ret>>

\* a walk that removes a file as soon as its key is already in the map
WalkFileEager ==
    /\ Visiting
    /\ entries[next].kind = "file"
    /\ ~MetricsTable[entries[next]].err
    /\ LET metrics == MetricsTable[entries[next]].metrics
           key == keyForMetrics(metrics)
       IN  /\ groupedFiles' = AppendPath(groupedFiles, key, next)
           /\ fileMetrics' = [p \in DOMAIN fileMetrics \cup {next} |->
                                IF p = next THEN metrics ELSE fileMetrics[p]]
           /\ IF key \in DOMAIN groupedFiles
              THEN /\ disk' = disk \ {next}
                   /\ attempts' = Append(attempts, <<next, TRUE>>)
              ELSE UNCHANGED <<disk, attempts>>
    /\ next' = next + 1
    /\ UNCHANGED <<entries, pc, todo, dups, removed, stdout, arg, ret>>

\* lines 258-266: the path joins the group of its key
WalkFile ==
    /\ Visiting
    /\ entries[next].kind = "file"
    /\ ~MetricsTable[entries[next]].err
    /\ LET metrics == MetricsTable[entries[next]].metrics
           key == keyForMetrics(metrics)
       IN  /\ groupedFiles' = AppendPath(groupedFiles, key, next)
           /\ fileMetrics' = [p \in DOMAIN fileMetrics \cup {next} |->
                                IF p = next THEN metrics ELSE fileMetrics[p]]
    /\ next' = next + 1
    /\ UNCHANGED <<entries, pc, todo, dups, disk, removed, attempts, stdout, arg, ret>>

\* lines 267-273: filepath.Walk returns nil (the callback never returns an
\* error), removed := 0 and the range over groupedFiles begins
WalkReturn ==
    /\ pc = "walk"
    /\ next > MaxEntries
    /\ pc' = "prune"
    /\ removed' = 0
    /\ todo' = DOMAIN groupedFiles
    /\ UNCHANGED <<entries, next, groupedFiles, fileMetrics, dups, disk,
                   attempts, stdout, arg, ret>>

\* lines 273-276: the range yields the next key, in no particular order
NextGroup ==
    /\ pc = "prune"
    /\ dups = <<>>
    /\ \E key \in todo :
         LET files == groupedFiles[key]
         IN  /\ todo' = todo \ {key}
             /\ IF Len(files) > 1
                THEN /\ stdout' = Append(stdout, GroupLine(key, files))
                     /\ dups' = Duplicates(files)
                ELSE UNCHANGED <<stdout, dups>>
    /\ UNCHANGED <<entries, pc, next, groupedFiles, fileMetrics, disk, removed,
                   attempts, arg, ret>>

\* lines 277, 281-284: os.Remove(dup) succeeds
RemoveOk ==
    /\ pc = "prune"
    /\ dups # <<>>
    /\ Head(dups) \in disk
    /\ disk' = disk \ {Head(dups)}
    /\ attempts' = Append(attempts, <<Head(dups), TRUE>>)
    /\ stdout' = Append(stdout, RemovedLine(Head(dups)))
    /\ removed' = removed + 1
    /\ dups' = Tail(dups)
    /\ UNCHANGED <<entries, pc, next, groupedFiles, fileMetrics, todo, arg, ret>>

\* a failed os.Remove that breaks out of the loop over the group
RemoveFailStops ==
    /\ pc = "prune"
    /\ dups # <<>>
    /\ attempts' = Append(attempts, <<Head(dups), FALSE>>)
    /\ dups' = <<>>
    /\ UNCHANGED <<entries, pc, next, groupedFiles, fileMetrics, todo, disk,
                   removed, stdout, arg, ret>>

\* lines 277-280: os.Remove(dup) fails, the failure is logged
RemoveFail ==
    /\ pc = "prune"
    /\ dups # <<>>
    /\ attempts' = Append(attempts, <<Head(dups), FALSE>>)
    /\ dups' = Tail(dups)
    /\ UNCHANGED <<entries, pc, next, groupedFiles, fileMetrics, todo, disk,
                   removed, stdout, arg, ret>>

\* line 288
ReportTotal ==
    /\ pc = "prune"
    /\ dups = <<>>
    /\ todo = {}
    /\ stdout' = Append(stdout, TotalLine(removed))
    /\ pc' = "done"
    /\ UNCHANGED <<entries, next, groupedFiles, fileMetrics, todo, dups, disk,
                   removed, attempts, arg, ret>>

Next ==
    \/ WalkError
    \/ WalkDir
    \/ WalkFileError
    \/ WalkFile
    \/ WalkReturn
    \/ NextGroup
    \/ RemoveOk
    \/ RemoveFail
    \/ ReportTotal

Spec == Init /\ [][Next]_vars

---------------------------------------------------------------------------
(* Specifications of single functions: the argument is drawn from a        *)
(* bounded set and one action applies the function to it.                  *)

IdleMain ==
    /\ entries = <<>>
    /\ pc = "idle"
    /\ next = 0
    /\ groupedFiles = EmptyMap
    /\ fileMetrics = EmptyMap
    /\ todo = {}
    /\ dups = <<>>
    /\ disk = {}
    /\ removed = 0
    /\ attempts = <<>>
    /\ stdout = <<>>

StringsUpTo(alphabet, n) == UNION {[1..k -> alphabet] : k \in 0..n}

SplitAlphabet == {NL, CR, "<", " ", "a"}

InitSplit ==
    /\ IdleMain
    /\ arg \in StringsUpTo(SplitAlphabet, MaxContentLen)
    /\ ret = NotCalled

\* line 197: Headers, Body := SeperateContentIntoHeadersAndBody(string(content))
CallSeperate ==
    /\ pc = "idle"
    /\ ret = NotCalled
    /\ ret' = <<SeperateContentIntoHeadersAndBody(arg)>>
    /\ UNCHANGED <<mainVars, arg>>

SpecSplit == InitSplit /\ [][CallSeperate]_vars

HeaderTokens ==
    {LocationLiteral, <<"C","o","n","t","e","n","t","-">>, <<NL>>,
     <<"/","/","h">>, <<"?","a","=","1">>, <<"&","b">>, <<"X",":"," ">>}

\* header blocks as the splitter returns them: trimmed
InitHeaders ==
    /\ IdleMain
    /\ arg \in {TrimSpace(Concat(ts)) : ts \in StringsUpTo(HeaderTokens, MaxHeaderTokens)}
    /\ ret = NotCalled

\* lines 206-208
CallRedirect ==
    /\ pc = "idle"
    /\ ret = NotCalled
    /\ LET location == GetRedirectLocation(arg)
       IN  ret' = <<[RedirectLocation |-> location,
                     RedirectDomain |-> ExtractRedirectDomain(location),
                     CountRedirectParameters |-> CountRedirectParameters(location)]>>
    /\ UNCHANGED <<mainVars, arg>>

SpecHeaders == InitHeaders /\ [][CallRedirect]_vars

---------------------------------------------------------------------------
(* Vocabulary of the properties. *)

Grouped == DOMAIN fileMetrics

\* the keys of the groups that hold path p
GroupOf(p) == {k \in DOMAIN groupedFiles : p \in Range(groupedFiles[k])}

Unreadable(p) == entries[p].kind = "file" /\ MetricsTable[entries[p]].err
Readable(p) == entries[p].kind = "file" /\ ~MetricsTable[entries[p]].err

Attempted == {attempts[i][1] : i \in DOMAIN attempts}
Succeeded == {attempts[i][1] : i \in {j \in DOMAIN attempts : attempts[j][2]}}
Failed == {attempts[i][1] : i \in {j \in DOMAIN attempts : ~attempts[j][2]}}

\* the paths of one group passed to os.Remove, in the order of the calls
RECURSIVE AttemptsOn(_, _)
AttemptsOn(files, log) ==
    IF log = <<>> THEN <<>>
    ELSE (IF Head(log)[1] \in Range(files) THEN <<Head(log)[1]>> ELSE <<>>)
         \o AttemptsOn(files, Tail(log))

TotalReported == \E i \in DOMAIN stdout : stdout[i].line = "total"

Called == ret # NotCalled

\* the indices of a '<' that directly follows a "\n"
Boundaries(c) == {i \in 2..Len(c) : c[i - 1] = NL /\ c[i] = "<"}

EmptyPair == [headers |-> <<>>, body |-> <<>>]

---------------------------------------------------------------------------
(* C1: two successfully read files that differ in a fingerprint field get  *)
(* different keys and sit in different groups.                             *)
C1_DifferentMetricsDifferentGroups ==
    \A p, q \in Grouped :
        fileMetrics[p] # fileMetrics[q] =>
            /\ keyForMetrics(fileMetrics[p]) # keyForMetrics(fileMetrics[q])
            /\ GroupOf(p) \cap GroupOf(q) = {}

(* C2, as claimed: when the run is done, every group of N > 1 paths has    *)
(* lost exactly N-1 files and kept exactly one, its first-visited path.    *)
C2_ExactlyAllButOneDeleted ==
    pc = "done" =>
        \A k \in DOMAIN groupedFiles :
            LET files == groupedFiles[k]
            IN  Len(files) > 1 =>
                    /\ Cardinality(Range(files) \ disk) = Len(files) - 1
                    /\ Range(files) \cap disk = {files[1]}

(* C2, amended: when the run is done, os.Remove was called exactly once on *)
(* each of the N-1 paths after the first-visited one, in visitation order, *)
(* and never on the first; the first-visited path survives, the deleted    *)
(* files of the group are exactly those whose removal succeeded, and when  *)
(* no removal of the group failed exactly N-1 are gone and one survives.   *)
C2_AllButFirstAttempted ==
    pc = "done" =>
        \A k \in DOMAIN groupedFiles :
            LET files == groupedFiles[k]
            IN  Len(files) > 1 =>
                    /\ AttemptsOn(files, attempts) = Tail(files)
                    /\ files[1] \in disk
                    /\ \A i \in 2..Len(files) : files[1] < files[i]
                    /\ Range(files) \ disk = Range(files) \cap Succeeded
                    /\ (Range(files) \cap Failed = {} =>
                            /\ Cardinality(Range(files) \ disk) = Len(files) - 1
                            /\ Range(files) \cap disk = {files[1]})

C2_Witness ==
    /\ pc = "done"
    /\ \E k \in DOMAIN groupedFiles :
          /\ Len(groupedFiles[k]) >= 3
          /\ Range(groupedFiles[k]) \cap Failed # {}
          /\ Range(groupedFiles[k]) \cap Succeeded # {}

(* C3: two successfully read files with equal metrics are in the same      *)
(* group, the group of the key of their metrics, wherever they were met.   *)
C3_EqualMetricsSameGroup ==
    /\ \A p \in Grouped : GroupOf(p) = {keyForMetrics(fileMetrics[p])}
    /\ \A p, q \in Grouped :
          fileMetrics[p] = fileMetrics[q] => GroupOf(q) = GroupOf(p)

C3_Witness ==
    /\ pc = "done"
    /\ \E p, r, q \in Grouped :
          /\ p < r /\ r < q
          /\ fileMetrics[p] = fileMetrics[q]
          /\ fileMetrics[r] # fileMetrics[p]
          /\ GroupOf(r) # GroupOf(p)

(* C4: a failed removal does not stop the pass: when the run is done every *)
(* non-first member of every group has had its os.Remove call, and the     *)
(* counter, at every moment and in the total line, is the number of        *)
(* removals that succeeded.                                                *)
C4_FailedRemovalDoesNotStopPass ==
    /\ pc \in {"prune", "done"} => removed = Cardinality(Succeeded)
    /\ pc = "done" =>
          /\ \A k \in DOMAIN groupedFiles :
                \A i \in 2..Len(groupedFiles[k]) : groupedFiles[k][i] \in Attempted
          /\ stdout[Len(stdout)] = TotalLine(Cardinality(Succeeded))
          /\ Cardinality(Paths \ disk) = Cardinality(Succeeded)
          /\ Succeeded \cap Failed = {}

C4_Witness ==
    /\ pc = "done"
    /\ \E i, j \in DOMAIN attempts :
          /\ i < j
          /\ ~attempts[i][2]
          /\ attempts[j][2]
          /\ GroupOf(attempts[i][1]) # GroupOf(attempts[j][1])

(* C5: a file whose computeMetrics fails is in no group, is never passed   *)
(* to os.Remove and stays on disk; the walk goes on, so every readable     *)
(* file the walk has passed is in a group, and the walk passes them all.   *)
C5_UnreadableFileIsSkipped ==
    /\ \A p \in Paths :
          Unreadable(p) => GroupOf(p) = {} /\ p \notin Attempted /\ p \in disk
    /\ \A p \in Paths : (Readable(p) /\ p < next) => GroupOf(p) # {}
    /\ pc # "walk" => next = MaxEntries + 1

C5_Witness ==
    /\ pc = "done"
    /\ \E p, q, r \in Paths :
          /\ p < q /\ q < r
          /\ entries[p].kind = "file" /\ entries[p].fault = "open"
          /\ entries[q].kind = "file" /\ entries[q].bytes = EmptyFile
          /\ r \in Succeeded

(* C6: a header block without a line named Location yields an empty        *)
(* redirect location, an empty redirect domain and "0" parameters.         *)
HasLocationLine(headers) ==
    \E i \in 1..Len(headers) :
        /\ i = 1 \/ headers[i - 1] = NL
        /\ MatchAt(headers, i, <<"L","o","c","a","t","i","o","n",":">>)

C6_NoLocationLineNoRedirect ==
    (Called /\ ~HasLocationLine(arg)) =>
        /\ ret[1].RedirectLocation = <<>>
        /\ ret[1].RedirectDomain = <<>>
        /\ ret[1].CountRedirectParameters = <<"0">>

(* C7: for a content with a boundary, the headers are the lines from the   *)
(* boundary to the first blank line, each without its leading "< ", the    *)
(* body is the lines after that blank line, and both are trimmed.          *)
RECURSIVE LinesOf(_)
LinesOf(s) ==
    LET e == LineEnd(s, 1)
    IN  IF e > Len(s) THEN <<DropCR(s)>>
        ELSE <<DropCR(SubSeq(s, 1, e - 1))>> \o LinesOf(From(s, e + 1))

StripLeadingMarker(line) ==
    IF MatchAt(line, 1, <<"<", " ">>) THEN From(line, 3) ELSE line

RECURSIVE JoinLines(_)
JoinLines(lines) ==
    IF lines = <<>> THEN <<>>
    ELSE Head(lines) \o <<NL>> \o JoinLines(Tail(lines))

DescribedSplit(c) ==
    LET ls == LinesOf(From(c, SetMin(Boundaries(c))))
        blanks == {i \in 1..Len(ls) : ls[i] = <<>>}
        k == IF blanks = {} THEN Len(ls) + 1 ELSE SetMin(blanks)
    IN  [headers |->
             TrimSpace(JoinLines([i \in 1..(k - 1) |-> StripLeadingMarker(ls[i])])),
         body |-> TrimSpace(JoinLines(SubSeq(ls, k + 1, Len(ls))))]

C7_SplitAtFirstBlankLine ==
    (Called /\ Boundaries(arg) # {}) => ret[1] = DescribedSplit(arg)

(* C8: a content without a '<' right after a "\n" yields empty headers and *)
(* an empty body; otherwise the analysed region starts at the first such   *)
(* '<', and what precedes it has no effect on the result.                  *)
C8_BoundaryOrNothing ==
    Called =>
        IF Boundaries(arg) = {}
        THEN EntireResponse(arg) = <<>> /\ ret[1] = EmptyPair
        ELSE LET region == From(arg, SetMin(Boundaries(arg)))
             IN  /\ EntireResponse(arg) = region
                 /\ ret[1] = SeperateContentIntoHeadersAndBody(<<NL>> \o region)

\* a content that starts with '<', holds a "\n" and a later '<', and has no boundary
C8_Witness ==
    /\ Called
    /\ Len(arg) >= 4
    /\ arg[1] = "<"
    /\ \E i, j \in 2..Len(arg) : i < j /\ arg[i] = NL /\ arg[j] = "<"
    /\ Boundaries(arg) = {}
    /\ ret[1] = EmptyPair

(* C9: files are removed only by the pruning pass, after the walk has      *)
(* visited every entry; the pass does not change the group map; nothing is *)
(* removed once the total line is written.                                 *)
C9_PruneOnlyAfterWalk ==
    [][ /\ (disk' # disk \/ attempts' # attempts) =>
              /\ pc = "prune"
              /\ next = MaxEntries + 1
              /\ ~TotalReported
        /\ pc # "walk" => groupedFiles' = groupedFiles /\ fileMetrics' = fileMetrics
        /\ TotalReported' => dups' = <<>> /\ todo' = {} ]_vars

C9_Witness ==
    /\ pc = "done"
    /\ TotalReported
    /\ Len(attempts) >= 2
    /\ Cardinality(DOMAIN groupedFiles) >= 2

(* C10: os.Remove is only ever called on a path at index >= 1 of a group   *)
(* of more than one path; a path is in at most one group, once; so the     *)
(* first path of every group, the members of one-path groups, unreadable   *)
(* files and directories stay on disk, and every key keeps a file.         *)
C10_SurvivorInvariant ==
    /\ \A i \in DOMAIN attempts :
          \E k \in DOMAIN groupedFiles :
              /\ Len(groupedFiles[k]) > 1
              /\ \E j \in 2..Len(groupedFiles[k]) : groupedFiles[k][j] = attempts[i][1]
    /\ \A k1, k2 \in DOMAIN groupedFiles :
          \A i \in DOMAIN groupedFiles[k1], j \in DOMAIN groupedFiles[k2] :
              groupedFiles[k1][i] = groupedFiles[k2][j] => k1 = k2 /\ i = j
    /\ Paths \ disk \subseteq Attempted
    /\ \A k \in DOMAIN groupedFiles :
          /\ groupedFiles[k] # <<>>
          /\ groupedFiles[k][1] \in disk
          /\ \A j \in 2..Len(groupedFiles[k]) : groupedFiles[k][1] < groupedFiles[k][j]
    /\ \A p \in Paths : ~Readable(p) => p \in disk

C10_Witness ==
    /\ pc = "done"
    /\ \E k1, k2 \in DOMAIN groupedFiles :
          /\ Len(groupedFiles[k1]) = 1
          /\ Len(groupedFiles[k2]) > 1
          /\ Range(groupedFiles[k2]) \cap Succeeded # {}
    /\ \E p \in Paths : ~Readable(p)

====
